---- MODULE Spec2Model ----
(***************************************************************************)
(* State reconciliation core of the conversation visualizer: the socket    *)
(* event handlers (socket-events.js) and the managers they call            *)
(* (ChatManager, AgentManager, PipelineManager, ConversationManager).      *)
(*                                                                         *)
(* A JavaScript object is a record; a property that is undefined is a key  *)
(* that is not in the record's DOMAIN.  A DOM text node is its textContent *)
(* string.  Every handler is a function from the page state (a record of   *)
(* all the variables) to the page state; an action applies one handler to  *)
(* the current state and commits the result.                               *)
(***************************************************************************)
EXTENDS Integers, Sequences, FiniteSets, TLC

VARIABLES
    conversationMessages,  \* children of UI.conversationMessages, in order
    agentPanel,            \* text of the agent1-* / agent2-* elements
    pipelineStates,        \* PipelineManager.pipelineStates
    pipelineDom,           \* content and class of agent1-pipeline / agent2-pipeline
    ring,                  \* prompt/title/response/time boxes, slots 0..2
    conversationActive,    \* State.conversationActive
    currentConversationId, \* State.currentConversationId
    stateAgents,           \* State.agents
    emitted,               \* events the last handler emitted on the socket
    threw,                 \* the last handler ended with an uncaught exception
    agentPage,             \* the two agent pages (agent_1.js): dialogue, timers, image
    lastEvent,             \* history: the event handled last
    pushLog,               \* history: rendered entries pushed since page load
    lastCompletion,        \* history: each pipeline as its last stage was last announced
    nEvents                \* history: number of events handled

vars == <<conversationMessages, agentPanel, pipelineStates, pipelineDom, ring,
          conversationActive, currentConversationId, stateAgents, emitted, threw, agentPage, lastEvent,
          pushLog, lastCompletion, nEvents>>

-----------------------------------------------------------------------------
(* Bounds: the number of events handled in one behaviour of each specification *)

MaxEvents == 3

MaxPushes == 4

MaxChatEvents == 4

MaxAgentEvents == 3

MaxPipelineEvents == 3

\* SpecHistory
MaxHistoryEvents == 3

\* SpecSession
MaxSessionEvents == 5

\* SpecAppend
MaxAppends == 3

\* SpecReveal
MaxRevealEvents == 3

\* SpecIsolation
MaxIsolationEvents == 3

-----------------------------------------------------------------------------
(* JavaScript values *)

Has(d, f) == f \in DOMAIN d

\* d.f used as a condition: undefined and '' are falsy
Truthy(d, f) == Has(d, f) /\ d[f] # ""

\* d.f || dflt
OrElse(d, f, dflt) == IF Truthy(d, f) THEN d[f] ELSE dflt

\* el.textContent = d.f : undefined is written as the empty string
TextOf(d, f) == IF Has(d, f) THEN d[f] ELSE ""

\* arr[i] || dflt for a 0-based index i into an array of strings
AtOr(arr, i, dflt) == IF i + 1 <= Len(arr) /\ arr[i + 1] # "" THEN arr[i + 1] ELSE dflt

Min(a, b) == IF a <= b THEN a ELSE b

\* senderId when the caller passes none
NoSenderId == -1

AgentIds == {0, 1}

-----------------------------------------------------------------------------
(* ConversationManager: the conversation ring *)

RingSlot(prompt, title, response, time) ==
    [promptBox |-> prompt, promptTitle |-> title,
     responseBox |-> response, responseTime |-> time]

\* what updateConversation writes into slot 0 for an llm_interaction payload
NewestSlot(data) ==
    RingSlot(TextOf(data, "prompt"),
             "Step: " \o OrElse(data, "step_title", "--"),
             TextOf(data, "response"),
             "Time elapsed: " \o OrElse(data, "elapsed_time", "--"))

updateConversationShiftFirst(s, data) ==
    [s EXCEPT !.ring = [i \in 0..2 |->
        IF i = 0 THEN NewestSlot(data) ELSE s.ring[0]]]

updateConversation(s, data) ==
    [s EXCEPT !.ring = [i \in 0..2 |->
        IF i = 0 THEN NewestSlot(data) ELSE s.ring[i - 1]]]

\* what restoreConversationHistory writes into slot i
RestoredSlot(h, i) ==
    RingSlot(AtOr(h.prompts, i, ""),
             "Step: " \o AtOr(h.titles, i, "--"),
             AtOr(h.responses, i, ""),
             "Time elapsed: " \o AtOr(h.times, i, "--"))

\* writes the entries in reverse: the last of the first three into slot 0
restoreConversationHistoryReversed(s, h) ==
    [s EXCEPT !.ring = [i \in 0..2 |->
        IF i < Min(Len(h.prompts), 3)
        THEN RestoredSlot(h, Min(Len(h.prompts), 3) - 1 - i) ELSE s.ring[i]]]

restoreConversationHistory(s, h) ==
    [s EXCEPT !.ring = [i \in 0..2 |->
        IF i < Min(Len(h.prompts), 3) THEN RestoredSlot(h, i) ELSE s.ring[i]]]

-----------------------------------------------------------------------------
(* ChatManager *)

\* looks at senderId before it looks at the sender
messageClassIdFirst(sender, senderId) ==
    IF senderId = 0 THEN "message message-left"
    ELSE IF senderId = 1 THEN "message message-right"
    ELSE IF sender = "Error" THEN "message message-error"
    ELSE "message message-system"

messageClass(sender, senderId) ==
    IF sender = "Error" THEN "message message-error"
    ELSE IF senderId = 0 THEN "message message-left"
    ELSE IF senderId = 1 THEN "message message-right"
    ELSE "message message-system"

\* shows the message even when an emotion comes with it
MessageElementKeepsText(sender, message, senderId, data) ==
    [className    |-> messageClass(sender, senderId),
     sender       |-> sender,
     text         |-> message,
     contentClass |-> IF Truthy(data, "emotion") THEN "emotion-display" ELSE "",
     title        |-> IF Truthy(data, "emotion") /\ Truthy(data, "original_speech")
                      THEN "Original speech: \"" \o data.original_speech \o "\""
                      ELSE ""]

\* the element addMessage appends: sender line, content line, its class and title
MessageElement(sender, message, senderId, data) ==
    [className    |-> messageClass(sender, senderId),
     sender       |-> sender,
     text         |-> IF Truthy(data, "emotion")
                      THEN "[" \o data.emotion \o "]" ELSE message,
     contentClass |-> IF Truthy(data, "emotion") THEN "emotion-display" ELSE "",
     title        |-> IF Truthy(data, "emotion") /\ Truthy(data, "original_speech")
                      THEN "Original speech: \"" \o data.original_speech \o "\""
                      ELSE ""]

\* inserts the new message before the ones already shown
addMessagePrepends(s, sender, message, senderId, data) ==
    IF sender = "System" THEN s
    ELSE [s EXCEPT !.conversationMessages =
            <<MessageElement(sender, message, senderId, data)>> \o @]

addMessageNoSkip(s, sender, message, senderId, data) ==
    [s EXCEPT !.conversationMessages =
        Append(@, MessageElement(sender, message, senderId, data))]

addMessage(s, sender, message, senderId, data) ==
    IF sender = "System" THEN s
    ELSE [s EXCEPT !.conversationMessages =
            Append(@, MessageElement(sender, message, senderId, data))]

clearMessages(s) == [s EXCEPT !.conversationMessages = <<>>]

-----------------------------------------------------------------------------
(* PipelineManager (the variant that tracks pipelineStates) *)

\* Array.prototype.indexOf, 0-based, -1 when absent
RECURSIVE indexFrom(_, _, _)
indexFrom(arr, x, i) ==
    IF i > Len(arr) THEN -1
    ELSE IF arr[i] = x THEN i - 1
    ELSE indexFrom(arr, x, i + 1)

indexOf(arr, x) == indexFrom(arr, x, 1)

\* the pipeline-summary elements createPipelineFlow builds, one per component
SummaryElements(components) ==
    [i \in 1..Len(components) |->
        [id |-> components[i], current |-> FALSE, text |-> ""]]

\* document.getElementById(`${agentId}-${stage}-summary`): position of the first
\* summary element of that agent with this stage, 0 when there is none
RECURSIVE elementFrom(_, _, _)
elementFrom(els, stage, i) ==
    IF i > Len(els) THEN 0
    ELSE IF els[i].id = stage THEN i
    ELSE elementFrom(els, stage, i + 1)

getSummaryElement(els, stage) == elementFrom(els, stage, 1)

\* stores the new components and leaves currentStep where it was
createPipelineFlowKeepsStep(s, agentId, components) ==
    IF s.threw THEN s
    ELSE IF Len(components) = 0 THEN s
    ELSE IF agentId \notin AgentIds THEN [s EXCEPT !.threw = TRUE]
    ELSE [s EXCEPT
            !.pipelineStates[agentId] =
                [components |-> components, currentStep |-> @.currentStep,
                 isActive |-> FALSE],
            !.pipelineDom[agentId].summaries = SummaryElements(components)]

createPipelineFlow(s, agentId, components) ==
    IF s.threw THEN s
    ELSE IF Len(components) = 0 THEN s
    ELSE IF agentId \notin AgentIds THEN [s EXCEPT !.threw = TRUE]
    ELSE [s EXCEPT
            !.pipelineStates[agentId] =
                [components |-> components, currentStep |-> 0, isActive |-> FALSE],
            !.pipelineDom[agentId].summaries = SummaryElements(components)]

\* adds the rendered class instead of toggling it
switchActiveFlagAddsClass(s, agentId) ==
    IF s.pipelineStates[agentId].isActive
    THEN [s EXCEPT !.pipelineStates[agentId].isActive = ~@,
                   !.pipelineDom[agentId].completed = TRUE]
    ELSE s

\* toggles the rendered class and leaves isActive as it is
switchActiveFlagKeepsFlag(s, agentId) ==
    IF s.pipelineStates[agentId].isActive
    THEN [s EXCEPT !.pipelineDom[agentId].completed = ~@]
    ELSE s

switchActiveFlag(s, agentId) ==
    IF s.pipelineStates[agentId].isActive
    THEN [s EXCEPT !.pipelineStates[agentId].isActive = ~@,
                   !.pipelineDom[agentId].completed = ~@]
    ELSE s

QuotedSummaryPlain(text) == text

\* summary.textContent = `"${data.summary}"`
QuotedSummary(text) == "\"" \o text \o "\""

\* moves currentStep only to a later stage
setCurrentStepForwardOnly(s, agentId, stageIndex) ==
    IF stageIndex # -1 /\ stageIndex > s.pipelineStates[agentId].currentStep
    THEN [s EXCEPT !.pipelineStates[agentId].currentStep = stageIndex]
    ELSE s

\* if (stageIndex !== -1) pipelineState.currentStep = stageIndex
setCurrentStep(s, agentId, stageIndex) ==
    IF stageIndex # -1
    THEN [s EXCEPT !.pipelineStates[agentId].currentStep = stageIndex]
    ELSE s

\* clears the text of every summary along with its 'current' class
removeCurrentAndText(s, agentId) ==
    LET els == s.pipelineDom[agentId].summaries
    IN [s EXCEPT !.pipelineDom[agentId].summaries =
            [i \in DOMAIN els |-> [els[i] EXCEPT !.current = FALSE, !.text = ""]]]

\* summaries.forEach(summary => summary.classList.remove('current'))
removeCurrent(s, agentId) ==
    LET els == s.pipelineDom[agentId].summaries
    IN [s EXCEPT !.pipelineDom[agentId].summaries =
            [i \in DOMAIN els |-> [els[i] EXCEPT !.current = FALSE]]]

\* the `if (currentSummary)` branch, for the summary element at position k
markCurrent(s, agentId, k, stageIndex, data) ==
    LET s1 == [s EXCEPT !.pipelineDom[agentId].summaries[k].current = TRUE]
        s2 == IF Truthy(data, "summary")
              THEN [s1 EXCEPT !.pipelineDom[agentId].summaries[k].text =
                                 QuotedSummary(data.summary)]
              ELSE s1
    IN IF stageIndex = Len(s.pipelineStates[agentId].components) - 1
       THEN switchActiveFlag(
              [s2 EXCEPT !.pipelineStates[agentId].isActive = TRUE], agentId)
       ELSE s2

updatePipelineStage(s, agentId, stage, data) ==
    IF s.threw THEN s
    ELSE IF stage = "" THEN s
    ELSE IF agentId \notin AgentIds THEN [s EXCEPT !.threw = TRUE]
    ELSE
      LET stageIndex == indexOf(s.pipelineStates[agentId].components, stage)
          s1 == removeCurrent(setCurrentStep(s, agentId, stageIndex), agentId)
          k  == getSummaryElement(s1.pipelineDom[agentId].summaries, stage)
      IN IF k = 0 THEN s1 ELSE markCurrent(s1, agentId, k, stageIndex, data)

getActiveFlag(s, agentId) == s.pipelineStates[agentId].isActive

-----------------------------------------------------------------------------
(* AgentManager *)

\* Array.prototype.join(', ')
RECURSIVE join(_)
join(arr) ==
    IF Len(arr) = 0 THEN ""
    ELSE IF Len(arr) = 1 THEN arr[1]
    ELSE arr[1] \o ", " \o join(Tail(arr))

\* every update goes to the panel of the second agent
panelOfSecond(agentId) == 1

\* the panel updateAgentInfo writes to: agentId === 0 ? 'agent1' : 'agent2'
panelOf(agentId) == IF agentId = 0 THEN 0 ELSE 1

\* data.plan?.f is truthy (an array is truthy even when empty)
PlanTruthy(data, f) ==
    /\ Has(data, "plan")
    /\ Has(data.plan, f)
    /\ (f = "tactics" \/ data.plan[f] # "")

\* data.interior is truthy: an object always, a string when not empty
InteriorTruthy(data) ==
    /\ Has(data, "interior")
    /\ (data.interior.type = "object" \/ data.interior.value # "")

InteriorText(interior) ==
    IF interior.type = "object" THEN OrElse(interior, "principles", "--")
    ELSE interior.value

\* writes data.goal whether or not the patch carries it
updateAgentInfoClobber(s, agentId, data) ==
    IF s.threw THEN s
    ELSE
      LET a == s.agentPanel[panelOf(agentId)]
      IN [s EXCEPT !.agentPanel[panelOf(agentId)] =
            [name        |-> IF Truthy(data, "name") THEN data.name ELSE a.name,
             personality |-> IF Truthy(data, "personality")
                             THEN data.personality ELSE a.personality,
             tension     |-> IF Has(data, "tension")
                             THEN ToString(data.tension) ELSE a.tension,
             goal        |-> IF PlanTruthy(data, "goal") /\ ~Truthy(data, "goal")
                             THEN data.plan.goal ELSE TextOf(data, "goal"),
             tactic      |-> IF PlanTruthy(data, "active_tactic")
                             THEN data.plan.active_tactic ELSE a.tactic,
             plan        |-> IF PlanTruthy(data, "tactics")
                             THEN join(data.plan.tactics) ELSE a.plan,
             interior    |-> IF InteriorTruthy(data)
                             THEN InteriorText(data.interior) ELSE a.interior]]

\* tests data.tension for truthiness, as it does data.name
updateAgentInfoTruthyTension(s, agentId, data) ==
    IF s.threw THEN s
    ELSE
      LET a == s.agentPanel[panelOf(agentId)]
      IN [s EXCEPT !.agentPanel[panelOf(agentId)] =
            [name        |-> IF Truthy(data, "name") THEN data.name ELSE a.name,
             personality |-> IF Truthy(data, "personality")
                             THEN data.personality ELSE a.personality,
             tension     |-> IF Has(data, "tension") /\ data.tension # 0
                             THEN ToString(data.tension) ELSE a.tension,
             goal        |-> IF Truthy(data, "goal") THEN data.goal
                             ELSE IF PlanTruthy(data, "goal") THEN data.plan.goal
                             ELSE a.goal,
             tactic      |-> IF PlanTruthy(data, "active_tactic")
                             THEN data.plan.active_tactic ELSE a.tactic,
             plan        |-> IF PlanTruthy(data, "tactics")
                             THEN join(data.plan.tactics) ELSE a.plan,
             interior    |-> IF InteriorTruthy(data)
                             THEN InteriorText(data.interior) ELSE a.interior]]

\* the goal taken from under plan first
goalTextPlanFirst(data, old) ==
    IF PlanTruthy(data, "goal") THEN data.plan.goal
    ELSE IF Truthy(data, "goal") THEN data.goal
    ELSE old

\* if (data.goal) ... else if (data.plan?.goal) ...
goalText(data, old) ==
    IF Truthy(data, "goal") THEN data.goal
    ELSE IF PlanTruthy(data, "goal") THEN data.plan.goal
    ELSE old

\* the active tactic taken from the patch itself first, then from under plan
tacticTextDirectFirst(data, old) ==
    IF Truthy(data, "active_tactic") THEN data.active_tactic
    ELSE IF PlanTruthy(data, "active_tactic") THEN data.plan.active_tactic
    ELSE old

\* if (data.plan?.active_tactic) ...
tacticText(data, old) ==
    IF PlanTruthy(data, "active_tactic") THEN data.plan.active_tactic ELSE old

\* if (data.plan?.tactics) ... data.plan.tactics.join(', ')
planText(data, old) ==
    IF PlanTruthy(data, "tactics") THEN join(data.plan.tactics) ELSE old

updateAgentInfo(s, agentId, data) ==
    IF s.threw THEN s
    ELSE
      LET a == s.agentPanel[panelOf(agentId)]
      IN [s EXCEPT !.agentPanel[panelOf(agentId)] =
            [name        |-> IF Truthy(data, "name") THEN data.name ELSE a.name,
             personality |-> IF Truthy(data, "personality")
                             THEN data.personality ELSE a.personality,
             tension     |-> IF Has(data, "tension")
                             THEN ToString(data.tension) ELSE a.tension,
             goal        |-> goalText(data, a.goal),
             tactic      |-> tacticText(data, a.tactic),
             plan        |-> planText(data, a.plan),
             interior    |-> IF InteriorTruthy(data)
                             THEN InteriorText(data.interior) ELSE a.interior]]

restoreAgent(s, agentState, agentId) ==
    LET s1 == updateAgentInfo(s, agentId, agentState)
    IN IF Has(agentState, "pipeline") /\ Has(agentState.pipeline, "components")
       THEN LET s2 == createPipelineFlow(s1, agentId, agentState.pipeline.components)
            IN IF Truthy(agentState.pipeline, "stage")
               THEN updatePipelineStage(s2, agentId, agentState.pipeline.stage,
                                        [none |-> ""])
               ELSE s2
       ELSE s1

-----------------------------------------------------------------------------
(* socket-events.js: one operator per registered handler *)

\* a handler starts with nothing emitted and no exception pending
Begin(s) == [s EXCEPT !.threw = FALSE, !.emitted = <<>>]

SenderId(d) == IF Has(d, "sender_id") THEN d.sender_id ELSE NoSenderId

NoData == [none |-> ""]

\* starts a conversation whether or not one is active
startConversationAlways(s0) ==
    [clearMessages(Begin(s0)) EXCEPT !.emitted = Append(@, "start_conversation")]

\* ConversationController.startConversation, called when the user asks for a
\* new conversation
startConversation(s0) ==
    LET s == Begin(s0)
    IN IF s.conversationActive THEN s
       ELSE [clearMessages(s) EXCEPT !.emitted = Append(@, "start_conversation")]

\* emits request_autostart whether or not a conversation is active
on_connect_always(s0) ==
    [Begin(s0) EXCEPT !.emitted = Append(@, "request_autostart")]

on_connect(s0) ==
    LET s == Begin(s0)
    IN IF ~s.conversationActive
       THEN [s EXCEPT !.emitted = Append(@, "request_autostart")]
       ELSE s

\* data.messages.forEach(msg => addMessage(msg.sender, msg.message, msg.sender_id))
RECURSIVE replayMessages(_, _)
replayMessages(s, msgs) ==
    IF Len(msgs) = 0 THEN s
    ELSE replayMessages(
           addMessage(s, TextOf(Head(msgs), "sender"), TextOf(Head(msgs), "message"),
                      SenderId(Head(msgs)), NoData),
           Tail(msgs))

\* one `if (data.agent_states[i])` block of the restore handler
restoreAgentSlot(s, agent_states, i) ==
    IF Has(agent_states, i)
    THEN LET s1 == restoreAgent(s, agent_states[i], i)
         IN IF Truthy(agent_states[i], "name")
            THEN [s1 EXCEPT !.stateAgents[i] =
                      [name |-> agent_states[i].name] @@ @]
            ELSE s1
    ELSE s

on_restore_state_replay_first(s0, data) ==
    LET s1 == IF Has(data, "messages")
              THEN replayMessages(Begin(s0), data.messages) ELSE Begin(s0)
        s2 == clearMessages(s1)
        s3 == IF Has(data, "agent_states")
              THEN restoreAgentSlot(restoreAgentSlot(s2, data.agent_states, 0),
                                    data.agent_states, 1)
              ELSE s2
    IN IF Has(data, "conversation_history")
       THEN restoreConversationHistory(s3, data.conversation_history)
       ELSE s3

on_restore_state(s0, data) ==
    LET s1 == clearMessages(Begin(s0))
        s2 == IF Has(data, "agent_states")
              THEN restoreAgentSlot(restoreAgentSlot(s1, data.agent_states, 0),
                                    data.agent_states, 1)
              ELSE s1
        s3 == IF Has(data, "conversation_history")
              THEN restoreConversationHistory(s2, data.conversation_history)
              ELSE s2
    IN IF Has(data, "messages") THEN replayMessages(s3, data.messages) ELSE s3

\* the value of a stored property that was assigned undefined
Undefined == "undefined"

\* the body of data.agents.forEach for one agent
initializeAgent(s, agent) ==
    LET s1 == updateAgentInfo(s, agent.agent_id, agent)
        s2 == IF Has(agent, "components") /\ Len(agent.components) > 0
              THEN createPipelineFlow(s1, agent.agent_id, agent.components)
              ELSE s1
    IN IF s2.threw THEN s2
       ELSE [s2 EXCEPT !.stateAgents =
                (agent.agent_id :> [name |-> IF Has(agent, "name")
                                             THEN agent.name ELSE Undefined]) @@ @]

RECURSIVE initializeEach(_, _)
initializeEach(s, agents) ==
    IF Len(agents) = 0 \/ s.threw THEN s
    ELSE initializeEach(initializeAgent(s, Head(agents)), Tail(agents))

on_initialize_agents(s0, data) ==
    LET s == Begin(s0)
    IN IF ~Has(data, "agents") THEN [s EXCEPT !.threw = TRUE]
       ELSE initializeEach(s, data.agents)

\* also puts the placeholder back into the goal of both panels
on_configResetsGoal(s0, data) ==
    LET s == Begin(s0)
    IN IF Has(data, "config") /\ Has(data.config, "agents")
          /\ Len(data.config.agents) >= 2
       THEN LET a == data.config.agents
            IN [s EXCEPT
                 !.agentPanel[0].name = TextOf(a[1], "name"),
                 !.agentPanel[1].name = TextOf(a[2], "name"),
                 !.agentPanel[0].personality = OrElse(a[1], "personality", "--"),
                 !.agentPanel[1].personality = OrElse(a[2], "personality", "--"),
                 !.agentPanel[0].goal = "--",
                 !.agentPanel[1].goal = "--"]
       ELSE s

on_config(s0, data) ==
    LET s == Begin(s0)
    IN IF Has(data, "config") /\ Has(data.config, "agents")
          /\ Len(data.config.agents) >= 2
       THEN LET a == data.config.agents
            IN [s EXCEPT
                 !.agentPanel[0].name = TextOf(a[1], "name"),
                 !.agentPanel[1].name = TextOf(a[2], "name"),
                 !.agentPanel[0].personality = OrElse(a[1], "personality", "--"),
                 !.agentPanel[1].personality = OrElse(a[2], "personality", "--")]
       ELSE s

on_llm_interaction(s0, data) == updateConversation(Begin(s0), data)

\* hands the whole event to addMessage as its fourth argument
on_messagePassesData(s0, data) ==
    addMessage(Begin(s0), TextOf(data, "sender"), TextOf(data, "message"),
               SenderId(data), data)

on_message(s0, data) ==
    addMessage(Begin(s0), TextOf(data, "sender"), TextOf(data, "message"),
               SenderId(data), NoData)

on_add_message(s0, data) ==
    addMessage(Begin(s0), TextOf(data, "sender"), TextOf(data, "message"),
               SenderId(data), NoData)

on_conversation_status(s0, data) ==
    LET s == [Begin(s0) EXCEPT !.conversationActive = data.active,
                               !.currentConversationId = data.conversation_id]
    IN addMessage(s, "System", "Conversation status: " \o data.status,
                  NoSenderId, NoData)

on_update_agent1(s0, data) == updateAgentInfo(Begin(s0), 0, data)

on_update_agent2(s0, data) == updateAgentInfo(Begin(s0), 1, data)

on_pipeline_update(s0, data) ==
    LET s == Begin(s0)
        pipelineData == IF Has(data, "data") THEN data.data ELSE NoData
    IN IF Truthy(data, "stage")
       THEN updatePipelineStage(s, data.agent_id, data.stage, pipelineData)
       ELSE s

on_agent_update(s0, data) ==
    LET s == updateAgentInfo(Begin(s0), data.agent_id, data)
    IN IF Truthy(data, "name")
       THEN [s EXCEPT !.stateAgents =
               (data.agent_id :>
                  (IF data.agent_id \in DOMAIN s.stateAgents
                   THEN s.stateAgents[data.agent_id] @@ [name |-> data.name]
                   ELSE [name |-> data.name])) @@ @]
       ELSE s

-----------------------------------------------------------------------------
(* The page after load *)

Placeholder == "--"

InitialPanel ==
    [name |-> Placeholder, personality |-> Placeholder, tension |-> Placeholder,
     goal |-> Placeholder, tactic |-> Placeholder, plan |-> Placeholder,
     interior |-> Placeholder]

InitialRingSlot == RingSlot("", "Step: --", "", "Time elapsed: --")

\* index.js: the DOMContentLoaded handler appends a test message
InitialMessages ==
    <<MessageElement("Debug", "Container initialized successfully", NoSenderId, NoData)>>

InitialPage ==
    [conversationMessages  |-> InitialMessages,
     agentPanel            |-> [a \in AgentIds |-> InitialPanel],
     pipelineStates        |-> [a \in AgentIds |->
                                  [components |-> <<>>, currentStep |-> 0,
                                   isActive |-> FALSE]],
     pipelineDom           |-> [a \in AgentIds |->
                                  [summaries |-> <<>>, completed |-> FALSE]],
     ring                  |-> [i \in 0..2 |-> InitialRingSlot],
     conversationActive    |-> FALSE,
     currentConversationId |-> "null",
     stateAgents           |-> (0 :> [name |-> "Agent 1"]) @@ (1 :> [name |-> "Agent 2"]),
     emitted               |-> <<>>,
     threw                 |-> FALSE]

\* the current page state as one record
Cur ==
    [conversationMessages  |-> conversationMessages,
     agentPanel            |-> agentPanel,
     pipelineStates        |-> pipelineStates,
     pipelineDom           |-> pipelineDom,
     ring                  |-> ring,
     conversationActive    |-> conversationActive,
     currentConversationId |-> currentConversationId,
     stateAgents           |-> stateAgents,
     emitted               |-> emitted,
     threw                 |-> threw]

-----------------------------------------------------------------------------
(* The agent pages (agent_1.js for agent 0, its twin for agent 1).  A text is *)
(* the sequence of its characters.  The dialogue element is what it shows:    *)
(* the placeholder span or not, then the characters typed after it.  The      *)
(* typed text holds no '<' or '>' and every '&' typed alone is read back as a *)
(* literal '&', so `innerHTML += c` adds exactly the character c to it.       *)

\* text.replace(/&/g, '&amp;').replace(/</g, '&lt;').replace(/>/g, '&gt;')
EscapeChar(c) ==
    CASE c = "&" -> <<"&", "a", "m", "p", ";">>
      [] c = "<" -> <<"&", "l", "t", ";">>
      [] c = ">" -> <<"&", "g", "t", ";">>
      [] OTHER   -> <<c>>

RECURSIVE escapeHtml(_)
escapeHtml(text) ==
    IF Len(text) = 0 THEN <<>> ELSE EscapeChar(Head(text)) \o escapeHtml(Tail(text))

\* text.trim() === ''
IsBlank(text) == \A i \in 1..Len(text) : text[i] = " "

\* d.f is a text and truthy: present and not empty
TruthyText(d, f) == Has(d, f) /\ Len(d[f]) > 0

\* one run of typeNextCharacter of the reveal of text, at position index
typeNextCharacter(p, text, index) ==
    IF index < Len(text)
    THEN [p EXCEPT !.dialogue.chars = Append(@, text[index + 1]),
                   !.timers = @ \cup {[id |-> p.nextTimer, text |-> text,
                                        index |-> index + 1]},
                   !.typingTimeout = p.nextTimer,
                   !.nextTimer = @ + 1]
    ELSE p

\* starts a reveal without clearing the timer of the one before
typeWriterEffectKeepsTimer(p, text) ==
    typeNextCharacter([p EXCEPT !.escapedText = escapeHtml(text),
                                !.dialogue = [placeholder |-> FALSE, chars |-> <<>>],
                                !.hasMessage = TRUE],
                      escapeHtml(text), 0)

\* typingTimeout 0 is null; clearTimeout of a timer that has fired does nothing;
\* escapedText is the constant of the closure of the latest call
typeWriterEffect(p, text) ==
    LET p1 == IF p.typingTimeout # 0
              THEN [p EXCEPT !.timers = {tm \in @ : tm.id # p.typingTimeout},
                             !.typingTimeout = 0]
              ELSE p
        p2 == [p1 EXCEPT !.escapedText = escapeHtml(text),
                         !.dialogue = [placeholder |-> FALSE, chars |-> <<>>],
                         !.hasMessage = TRUE]
    IN typeNextCharacter(p2, escapeHtml(text), 0)

updateDialogueBox(p, message) ==
    IF Len(message) = 0 \/ IsBlank(message) THEN p
    ELSE typeWriterEffect([p EXCEPT !.currentMessage = message], message)

clearDialogueBox(p) ==
    [p EXCEPT !.dialogue = [placeholder |-> TRUE, chars |-> <<>>],
              !.hasMessage = FALSE,
              !.currentMessage = <<>>]

updateAgentImage(p, emotion) ==
    LET e == IF emotion = "" THEN "neutral" ELSE emotion
    IN IF p.lastEmotion = e THEN p
       ELSE [p EXCEPT !.lastEmotion = e, !.img = e]

\* the speech handleMessage displays: speech, else original_speech, else message
speechToDisplay(data) ==
    IF TruthyText(data, "speech") THEN data.speech
    ELSE IF TruthyText(data, "original_speech") THEN data.original_speech
    ELSE IF TruthyText(data, "message") THEN data.message
    ELSE <<>>

\* handleMessage on the page of agent a
handleMessage(p, a, data) ==
    IF ~Has(data, "sender_id") \/ data.sender_id # a THEN p
    ELSE LET p1 == updateAgentImage(p, OrElse(data, "emotion", "neutral"))
         IN IF ~IsBlank(speechToDisplay(data))
            THEN updateDialogueBox(p1, speechToDisplay(data))
            ELSE p1

\* findLatestAgentMessage: position of the last message of agent a with a
\* non-blank text, 0 when there is none
RECURSIVE latestFrom(_, _, _)
latestFrom(messages, a, i) ==
    IF i = 0 THEN 0
    ELSE IF /\ Has(messages[i], "sender_id") /\ messages[i].sender_id = a
            /\ TruthyText(messages[i], "message") /\ ~IsBlank(messages[i].message)
         THEN i
    ELSE latestFrom(messages, a, i - 1)

findLatestAgentMessage(messages, a) == latestFrom(messages, a, Len(messages))

\* handleStateRestore on the page of agent a
handleStateRestore(p, a, data) ==
    IF ~Has(data, "messages") THEN p
    ELSE LET k == findLatestAgentMessage(data.messages, a)
         IN IF k = 0 THEN p
            ELSE LET latestMessage == data.messages[k]
                     speech == IF TruthyText(latestMessage, "original_speech")
                               THEN latestMessage.original_speech
                               ELSE latestMessage.message
                     p1 == IF ~IsBlank(speech) THEN updateDialogueBox(p, speech) ELSE p
                 IN IF Truthy(latestMessage, "emotion")
                    THEN updateAgentImage(p1, latestMessage.emotion)
                    ELSE p1

\* the conversation_status handler of an agent page
pageStatus(p, data) ==
    IF TextOf(data, "status") = "started" THEN clearDialogueBox(p) ELSE p

\* a pending timer fires: it is no longer pending and typeNextCharacter runs
timerFires(p, tm) ==
    typeNextCharacter([p EXCEPT !.timers = @ \ {tm}], tm.text, tm.index)

\* the text of the placeholder span, as one piece
PlaceholderText(a) ==
    IF a = 0 THEN "Waiting for Alice to speak..." ELSE "Waiting for Morgan to speak..."

\* the text the dialogue element of the page of agent a shows
Shown(p, a) ==
    (IF p.dialogue.placeholder THEN <<PlaceholderText(a)>> ELSE <<>>)
       \o p.dialogue.chars

\* what the dialogue element shows when the page is loaded
InitialDialogue == [placeholder |-> TRUE, chars |-> <<>>]

InitialAgentPage ==
    [dialogue       |-> InitialDialogue,
     hasMessage     |-> FALSE,
     currentMessage |-> <<>>,
     escapedText    |-> <<>>,
     typingTimeout  |-> 0,
     timers         |-> {},
     nextTimer      |-> 1,
     lastEmotion    |-> "neutral",
     img            |-> "neutral"]

\* no last stage announced yet
NoCompletion == [seen |-> FALSE, isActive |-> FALSE, completed |-> FALSE]

Init ==
    /\ conversationMessages = InitialPage.conversationMessages
    /\ agentPanel = InitialPage.agentPanel
    /\ pipelineStates = InitialPage.pipelineStates
    /\ pipelineDom = InitialPage.pipelineDom
    /\ ring = InitialPage.ring
    /\ conversationActive = InitialPage.conversationActive
    /\ currentConversationId = InitialPage.currentConversationId
    /\ stateAgents = InitialPage.stateAgents
    /\ emitted = InitialPage.emitted
    /\ threw = InitialPage.threw
    /\ agentPage = [a \in AgentIds |-> InitialAgentPage]
    /\ lastEvent = [type |-> "load"]
    /\ pushLog = <<>>
    /\ lastCompletion = [a \in AgentIds |-> NoCompletion]
    /\ nEvents = 0

\* the stages createPipelineFlow is given for agent a while restore_state is
\* handled, <<>> when it is not called or is given none
RestoredStages(evt, a) ==
    IF /\ evt.type = "restore_state"
       /\ Has(evt.data, "agent_states")
       /\ a \in DOMAIN evt.data.agent_states
       /\ Has(evt.data.agent_states[a], "pipeline")
       /\ Has(evt.data.agent_states[a].pipeline, "components")
    THEN evt.data.agent_states[a].pipeline.components
    ELSE <<>>

\* handling evt in page state s announces the last stage of agent a's pipeline:
\* a pipeline_update naming it, or a restore_state whose pipeline.stage is it
AnnouncesLastStage(s, evt, a) ==
    CASE evt.type = "pipeline_update" ->
           LET components == s.pipelineStates[a].components
           IN /\ evt.data.agent_id = a
              /\ Len(components) > 0
              /\ TextOf(evt.data, "stage") = components[Len(components)]
      [] evt.type = "restore_state" ->
           LET given == RestoredStages(evt, a)
               components == IF Len(given) > 0 THEN given
                             ELSE s.pipelineStates[a].components
           IN /\ Has(evt.data, "agent_states")
              /\ a \in DOMAIN evt.data.agent_states
              /\ Has(evt.data.agent_states[a], "pipeline")
              /\ Has(evt.data.agent_states[a].pipeline, "components")
              /\ Truthy(evt.data.agent_states[a].pipeline, "stage")
              /\ Len(components) > 0
              /\ evt.data.agent_states[a].pipeline.stage = components[Len(components)]
      [] OTHER -> FALSE

\* the page becomes t, the result of handling event evt
Commit(t, evt) ==
    /\ conversationMessages' = t.conversationMessages
    /\ agentPanel' = t.agentPanel
    /\ pipelineStates' = t.pipelineStates
    /\ pipelineDom' = t.pipelineDom
    /\ ring' = t.ring
    /\ conversationActive' = t.conversationActive
    /\ currentConversationId' = t.currentConversationId
    /\ stateAgents' = t.stateAgents
    /\ emitted' = t.emitted
    /\ threw' = t.threw
    /\ agentPage' = agentPage
    /\ lastEvent' = evt
    /\ pushLog' = IF evt.type = "llm_interaction"
                  THEN Append(pushLog, evt.data) ELSE pushLog
    /\ lastCompletion' =
          [a \in AgentIds |->
              IF AnnouncesLastStage(Cur, evt, a) /\ ~t.threw
              THEN [seen      |-> TRUE,
                    isActive  |-> t.pipelineStates[a].isActive,
                    completed |-> t.pipelineDom[a].completed]
              ELSE lastCompletion[a]]
    /\ nEvents' = nEvents + 1

-----------------------------------------------------------------------------
(* Actions: the socket delivers one event and its handler runs to the end *)

Connect == Commit(on_connect(Cur), [type |-> "connect"])

\* the page of agent a becomes p; the main page is another document
CommitPage(a, p, evt, handled) ==
    /\ agentPage' = [agentPage EXCEPT ![a] = p]
    /\ lastEvent' = evt
    /\ nEvents' = nEvents + handled
    /\ UNCHANGED <<conversationMessages, agentPanel, pipelineStates, pipelineDom,
                   ring, conversationActive, currentConversationId, stateAgents,
                   emitted, threw, pushLog, lastCompletion>>

\* 'message' or 'add_message' delivered to the page of agent a
PageMessage(a, data) ==
    CommitPage(a, handleMessage(agentPage[a], a, data),
               [type |-> "page_message", page |-> a, data |-> data], 1)

PageRestoreState(a, data) ==
    CommitPage(a, handleStateRestore(agentPage[a], a, data),
               [type |-> "page_restore_state", page |-> a, data |-> data], 1)

PageConversationStatus(a, data) ==
    CommitPage(a, pageStatus(agentPage[a], data),
               [type |-> "page_conversation_status", page |-> a, data |-> data], 1)

\* a timer of the page of agent a fires
TimerFires(a, tm) ==
    CommitPage(a, timerFires(agentPage[a], tm),
               [type |-> "timer", page |-> a, data |-> tm], 0)

\* ChatManager.addMessage called with all four of its arguments
AppendCall(args) ==
    Commit(addMessage(Cur, args.sender, args.message, args.senderId, args.data),
           [type |-> "addMessage", data |-> args])

StartConversation == Commit(startConversation(Cur), [type |-> "startConversation"])

\* a disconnect that marks the conversation as no longer active
DisconnectEndsConversation ==
    Commit([Cur EXCEPT !.conversationActive = FALSE], [type |-> "disconnect"])

\* the socket disconnects: no handler is registered for it, nothing runs
Disconnect == Commit(Cur, [type |-> "disconnect"])

RestoreState(data) ==
    Commit(on_restore_state(Cur, data), [type |-> "restore_state", data |-> data])

InitializeAgents(data) ==
    Commit(on_initialize_agents(Cur, data), [type |-> "initialize_agents", data |-> data])

Config(data) == Commit(on_config(Cur, data), [type |-> "config", data |-> data])

LlmInteraction(data) ==
    Commit(on_llm_interaction(Cur, data), [type |-> "llm_interaction", data |-> data])

Message(data) == Commit(on_message(Cur, data), [type |-> "message", data |-> data])

AddMessage(data) ==
    Commit(on_add_message(Cur, data), [type |-> "add_message", data |-> data])

ConversationStatus(data) ==
    Commit(on_conversation_status(Cur, data),
           [type |-> "conversation_status", data |-> data])

UpdateAgent1(data) ==
    Commit(on_update_agent1(Cur, data), [type |-> "update_agent1", data |-> data])

UpdateAgent2(data) ==
    Commit(on_update_agent2(Cur, data), [type |-> "update_agent2", data |-> data])

PipelineUpdate(data) ==
    Commit(on_pipeline_update(Cur, data), [type |-> "pipeline_update", data |-> data])

AgentUpdate(data) ==
    Commit(on_agent_update(Cur, data), [type |-> "agent_update", data |-> data])

-----------------------------------------------------------------------------
(* Event payloads *)

LlmPayloads ==
    { [prompt |-> "p1", step_title |-> "plan", response |-> "r1", elapsed_time |-> "2s"],
      [prompt |-> "p2", response |-> "r2"],
      [prompt |-> "p3", step_title |-> "", response |-> "r3", elapsed_time |-> "9s"] }

MsgAlice == [sender |-> "Alice", message |-> "hi", sender_id |-> 0]

MsgMorgan ==
    [sender |-> "Morgan", message |-> "yo", sender_id |-> 1,
     emotion |-> "angry", original_speech |-> "yo"]

MsgSystem == [sender |-> "System", message |-> "hello"]

MsgError == [sender |-> "Error", message |-> "boom", sender_id |-> 0]

MsgNarrator == [sender |-> "Narrator", message |-> "later"]

ChatPayloads == {MsgAlice, MsgMorgan, MsgSystem, MsgError}

AddMessagePayloads == {MsgSystem, MsgNarrator}

StatusPayloads ==
    { [active |-> TRUE, conversation_id |-> "c1", status |-> "started"],
      [active |-> FALSE, conversation_id |-> "c1", status |-> "ended"] }

\* restore_state payloads that carry only the chat replay
ChatRestorePayloads ==
    { [messages |-> <<>>],
      [messages |-> <<MsgAlice>>],
      [messages |-> <<MsgSystem, MsgAlice>>],
      [messages |-> <<MsgMorgan, MsgAlice>>],
      [agent_states |-> <<>>] }

PatchTension == [tension |-> 5]

PatchGoal == [goal |-> "x"]

\* every recognized scalar field present and falsy
PatchFalsy == [name |-> "", personality |-> "", tension |-> 0, goal |-> ""]

PatchIdentity == [name |-> "Alice", personality |-> "bold"]

PatchPlan ==
    [plan |-> [goal |-> "pg", active_tactic |-> "t1", tactics |-> <<"t1", "t2">>]]

PatchGoalAndPlan == [goal |-> "g2", plan |-> [goal |-> "pg", tactics |-> <<>>]]

\* an empty goal beside a goal under plan
PatchEmptyGoalAndPlan == [goal |-> "", plan |-> [goal |-> "pg2", active_tactic |-> ""]]

\* the active tactic and the tactic list as fields of the patch itself
PatchDirectTactics == [active_tactic |-> "t9", tactics |-> <<"t8", "t9">>]

PatchInteriorObject == [interior |-> [type |-> "object", principles |-> "be kind"]]

PatchInteriorString == [interior |-> [type |-> "string", value |-> "calm"]]

\* a patch that is a string or a number: every property read of it is undefined
PrimitivePatch == [primitive |-> "oops"]

AgentPatches ==
    {PatchTension, PatchGoal, PatchFalsy, PatchIdentity, PatchPlan,
     PatchGoalAndPlan, PatchEmptyGoalAndPlan, PatchDirectTactics,
     PatchInteriorObject, PatchInteriorString}

Agent2Patches == {PatchTension, PatchGoal, PatchFalsy, PatchIdentity}

\* agent_update carries the agent's id beside the patch; 2 is an id with no panel
AgentUpdatePayloads ==
    { [agent_id |-> i] @@ patch :
        i \in {0, 1, 2}, patch \in {PatchTension, PatchFalsy, PatchIdentity} }

Stages4 == <<"trigger", "intent", "plan", "action">>

Stages2 == <<"plan", "action">>

\* the first payload is the one of the end-to-end scenario
InitializePayloads ==
    { [agents |-> << [agent_id |-> 0, name |-> "Alice", components |-> Stages4],
                     [agent_id |-> 1, name |-> "Morgan", components |-> Stages4] >>],
      [agents |-> << [agent_id |-> 1, name |-> "Morgan", components |-> Stages2] >>],
      [agents |-> << [agent_id |-> 0, name |-> "Alice", components |-> <<>>] >>] }

\* initialize_agents with an entry for an id that has no panel and no pipeline
StrangerInitializePayloads ==
    { [agents |-> << [agent_id |-> 2, name |-> "Zed", components |-> Stages2] >>] }

PipelineUpdatePayloads ==
    { [agent_id |-> a, stage |-> st] @@ d :
        a \in AgentIds, st \in {"trigger", "plan", "action", "zzz"},
        d \in {<<>>, [data |-> [summary |-> "said hi"]]} }
    \cup
    { [agent_id |-> 0, stage |-> "", data |-> [summary |-> "said hi"]],
      [agent_id |-> 0, data |-> [summary |-> "said hi"]],
      [agent_id |-> 0, stage |-> "action", data |-> [summary |-> ""]],
      [agent_id |-> 0, stage |-> "plan", data |-> [summary |-> "ok"]],
      [agent_id |-> 0, data |-> [components |-> Stages2]],
      [agent_id |-> 0, stage |-> "plan", data |-> [components |-> Stages2]],
      [agent_id |-> 0, stage |-> "plan_start"],
      [agent_id |-> 2, stage |-> "plan"] }

\* restore_state payloads that carry a pipeline description
PipelineRestorePayloads ==
    { [agent_states |->
         (0 :> [name |-> "Alice",
                pipeline |-> [components |-> Stages4, stage |-> "action"]])],
      [agent_states |-> (1 :> [pipeline |-> [components |-> Stages2]])] }

ConfigPayloads ==
    { [config |-> [agents |-> << [name |-> "Alice", personality |-> "bold"],
                                 [name |-> "Morgan"] >>]],
      [config |-> [agents |-> << [name |-> "Solo"] >>]] }

\* conversation_history: parallel arrays, newest first
History(prompts, responses, titles, times) ==
    [prompts |-> prompts, responses |-> responses, titles |-> titles, times |-> times]

\* restore_state payloads: a full snapshot, a bare one, and partial ones
RestorePayloads ==
    { [agent_states |->
         (0 :> [name |-> "Alice", tension |-> 5,
                pipeline |-> [components |-> Stages4, stage |-> "action"]])
         @@ (1 :> [name |-> "Morgan"]),
       conversation_history |->
         History(<<"p1", "p2">>, <<"r1", "r2">>, <<"plan", "">>, <<"2s", "">>),
       messages |-> <<MsgAlice>>],
      [messages |-> <<>>],
      [conversation_history |-> History(<<"p3">>, <<"r3">>, <<"action">>, <<"9s">>),
       messages |-> <<MsgSystem, MsgAlice>>],
      [conversation_history |->
         History(<<"p1", "p2", "p3", "p4">>, <<"r1", "r2", "r3", "r4">>,
                 <<"a", "b", "c", "d">>, <<"1s", "2s", "3s", "4s">>)] }

\* restore_state payloads that carry a conversation history of 0, 1, 2 and 4
\* entries; the third has an empty prompt and shorter parallel arrays
HistoryPayloads ==
    { [conversation_history |-> History(<<>>, <<>>, <<>>, <<>>)],
      [conversation_history |-> History(<<"p3">>, <<"r3">>, <<"action">>, <<"9s">>)],
      [conversation_history |-> History(<<"p1", "">>, <<"r1">>, <<"plan", "">>, <<>>)],
      [conversation_history |->
         History(<<"p1", "p2", "p3", "p4">>, <<"r1", "r2", "r3", "r4">>,
                 <<"a", "b", "c", "d">>, <<"1s", "2s", "3s", "4s">>)] }

-----------------------------------------------------------------------------
(* SpecRing: llm_interaction events only, any sequence of pushes *)

NextRing ==
    \/ \E data \in LlmPayloads : nEvents < MaxPushes /\ LlmInteraction(data)

SpecRing == Init /\ [][NextRing]_vars

\* C1: after any sequence of pushes the ring holds the last min(3, n) pushed
\* entries, newest in slot 0, the one before it in slot 1, the one before that in
\* slot 2; the remaining slots still show what the page was loaded with, and an
\* entry pushed more than 3 pushes ago is in no slot any more.
RingHoldsLastPushes ==
    LET n == Len(pushLog)
    IN \A i \in 0..2 :
         ring[i] = IF i < Min(3, n) THEN NewestSlot(pushLog[n - i])
                   ELSE InitialRingSlot

RingDiscardedOldest ==
    /\ Len(pushLog) = 4
    /\ \A i \in 0..2 : ring[i] # NewestSlot(pushLog[1])
    /\ ring[0] # ring[1]
    /\ ring[1] # ring[2]

-----------------------------------------------------------------------------
(* SpecHistory: pushes and restores of the conversation history *)

NextHistory ==
    \/ \E data \in LlmPayloads : nEvents < MaxHistoryEvents /\ LlmInteraction(data)
    \/ \E data \in HistoryPayloads : nEvents < MaxHistoryEvents /\ RestoreState(data)

SpecHistory == Init /\ [][NextHistory]_vars

\* a restore_state that reaches restoreConversationHistory
HistoryRestore(evt) ==
    evt.type = "restore_state" /\ Has(evt.data, "conversation_history")

\* the number of ring slots a history fills: Math.min(prompts.length, 3)
Filled(evt) == Min(Len(evt.data.conversation_history.prompts), 3)

\* C18: restoreConversationHistory with n entries writes entry i into ring slot i
\* for every i < min(n, 3), in the order given; the entries at index 3 and
\* beyond reach no slot: the slots from min(n, 3) on are as they were.
RestoreWritesFirstThree ==
    [][HistoryRestore(lastEvent') =>
          \A i \in 0..2 :
             ring'[i] = IF i < Filled(lastEvent')
                        THEN RestoredSlot(lastEvent'.data.conversation_history, i)
                        ELSE ring[i]]_vars

\* a history of four entries restored over a pushed entry: the first three are
\* shown in the order given, the fourth nowhere
RestoredFirstThreeOfFour ==
    /\ HistoryRestore(lastEvent)
    /\ Len(lastEvent.data.conversation_history.prompts) = 4
    /\ Len(pushLog) > 0
    /\ ring[0] = RingSlot("p1", "Step: a", "r1", "Time elapsed: 1s")
    /\ ring[1] = RingSlot("p2", "Step: b", "r2", "Time elapsed: 2s")
    /\ ring[2] = RingSlot("p3", "Step: c", "r3", "Time elapsed: 3s")

\* C19: after restoreConversationHistory with fewer than 3 entries every ring
\* slot that has no entry shows the placeholders, not what it showed before.
RestoreClearsUnfilledSlots ==
    HistoryRestore(lastEvent) =>
       \A i \in 0..2 : i >= Filled(lastEvent) => ring[i] = InitialRingSlot

-----------------------------------------------------------------------------
(* SpecSession: the connection comes and goes while a conversation runs *)

NextSession ==
    \/ nEvents < MaxSessionEvents /\ Connect
    \/ nEvents < MaxSessionEvents /\ Disconnect
    \/ nEvents < MaxSessionEvents /\ StartConversation
    \/ \E data \in StatusPayloads :
         nEvents < MaxSessionEvents /\ ConversationStatus(data)
    \/ \E data \in {MsgAlice, MsgMorgan} : nEvents < MaxSessionEvents /\ Message(data)

SpecSession == Init /\ [][NextSession]_vars

\* C20: State.conversationActive is false at load and is changed only by a
\* conversation_status event, which sets it to the event's 'active'; each
\* connect emits request_autostart exactly once when it is false and emits
\* nothing when it is true, however many disconnects and connects came before.
AutostartIffNoneActive ==
    /\ ~conversationActive
    /\ [][/\ conversationActive' =
               IF lastEvent'.type = "conversation_status"
               THEN lastEvent'.data.active ELSE conversationActive
          /\ lastEvent'.type = "connect" =>
               emitted' = IF conversationActive THEN <<>>
                          ELSE <<"request_autostart">>]_vars

\* the fifth event is a connect that finds conversation c1 active and emits
\* nothing
ReconnectedWhileActive ==
    /\ lastEvent.type = "connect"
    /\ nEvents = 5
    /\ conversationActive
    /\ currentConversationId = "c1"
    /\ emitted = <<>>

\* C22: startConversation while a conversation is active emits nothing and
\* changes no state; while none is active it emits start_conversation exactly
\* once.
StartOnlyWhenNoneActive ==
    [][lastEvent'.type = "startConversation" =>
          IF conversationActive
          THEN /\ emitted' = <<>>
               /\ conversationMessages' = conversationMessages
               /\ agentPanel' = agentPanel
               /\ pipelineStates' = pipelineStates
               /\ pipelineDom' = pipelineDom
               /\ ring' = ring
               /\ stateAgents' = stateAgents
               /\ currentConversationId' = currentConversationId
               /\ conversationActive' = conversationActive
          ELSE emitted' = <<"start_conversation">>]_vars

\* startConversation asked for while conversation c1 is active, with Alice's
\* message still in the chat
StartRefusedWhileActive ==
    /\ lastEvent.type = "startConversation"
    /\ conversationActive
    /\ currentConversationId = "c1"
    /\ emitted = <<>>
    /\ Len(conversationMessages) = 2
    /\ conversationMessages[2].sender = "Alice"

-----------------------------------------------------------------------------
(* SpecAppend: ChatManager.addMessage called with its optional data argument *)

\* the data argument: absent or empty ones among them
AppendData ==
    { NoData,
      [emotion |-> "angry"],
      [emotion |-> "angry", original_speech |-> "yo"],
      [emotion |-> "sad", original_speech |-> ""],
      [emotion |-> "", original_speech |-> "yo"],
      [original_speech |-> "yo"] }

AppendArgs ==
    { [sender |-> "Alice", message |-> "hi", senderId |-> 0, data |-> d] :
        d \in AppendData }
    \cup
    { [sender |-> "Morgan", message |-> "yo", senderId |-> 1, data |-> d] :
        d \in AppendData }

NextAppend ==
    \/ \E args \in AppendArgs : nEvents < MaxAppends /\ AppendCall(args)

SpecAppend == Init /\ [][NextAppend]_vars

\* the entry rendered last
Newest(msgs) == msgs[Len(msgs)]

\* C26 (as amended): when addMessage is given a non-empty data.emotion the entry
\* shows the bracketed tag '[emotion]' instead of the message, and a non-empty
\* data.original_speech is then attached to it as hover detail; without an
\* emotion, or with an empty one, the entry shows the message and no hover
\* detail is attached, whatever data.original_speech is.
EmotionShownWhenNonEmpty ==
    [][lastEvent'.type = "addMessage" =>
          LET a  == lastEvent'.data
              el == Newest(conversationMessages')
              emotion == Has(a.data, "emotion") /\ a.data.emotion # ""
              speech  == Has(a.data, "original_speech") /\ a.data.original_speech # ""
          IN /\ Len(conversationMessages') = Len(conversationMessages) + 1
             /\ el.text = IF emotion THEN "[" \o a.data.emotion \o "]" ELSE a.message
             /\ el.title = IF emotion /\ speech
                           THEN "Original speech: \"" \o a.data.original_speech \o "\""
                           ELSE ""]_vars

\* C26 (as claimed): when data.emotion is present the entry shows '[emotion]'
\* and data.original_speech, if present, is attached as hover detail; when it is
\* absent the entry shows the message and has no hover detail.
EmotionShownWhenPresent ==
    [][lastEvent'.type = "addMessage" =>
          LET a  == lastEvent'.data
              el == Newest(conversationMessages')
          IN /\ Len(conversationMessages') = Len(conversationMessages) + 1
             /\ el.text = IF Has(a.data, "emotion")
                          THEN "[" \o a.data.emotion \o "]" ELSE a.message
             /\ el.title = IF Has(a.data, "emotion") /\ Has(a.data, "original_speech")
                           THEN "Original speech: \"" \o a.data.original_speech \o "\""
                           ELSE ""]_vars

\* Morgan's entry shows [angry] and carries the speech as hover detail
EmotionTagShown ==
    /\ lastEvent.type = "addMessage"
    /\ lastEvent.data.sender = "Morgan"
    /\ lastEvent.data.data = [emotion |-> "angry", original_speech |-> "yo"]
    /\ Newest(conversationMessages).text = "[angry]"
    /\ Newest(conversationMessages).title = "Original speech: \"yo\""

-----------------------------------------------------------------------------
(* SpecReveal: messages, restores and timer firings on the agent pages *)

\* messages as the agent pages read them: texts are character sequences
SpeechPayloads ==
    { [sender_id |-> 0, speech |-> <<"h", "i">>, emotion |-> "happy",
       message |-> <<"x">>],
      [sender_id |-> 0, message |-> <<"a", "<">>],
      [sender_id |-> 1, original_speech |-> <<"y", "o">>, message |-> <<"z">>],
      [sender_id |-> 0, message |-> <<" ">>, emotion |-> "sad"] }

PageRestorePayloads ==
    { [messages |-> << [sender_id |-> 0, message |-> <<"o", "k">>],
                       [sender_id |-> 1, message |-> <<"n", "o">>,
                        original_speech |-> <<"n">>, emotion |-> "angry"],
                       [sender_id |-> 0, message |-> <<" ">>] >>],
      [messages |-> <<>>] }

NextReveal ==
    \/ \E a \in AgentIds, data \in SpeechPayloads :
         nEvents < MaxRevealEvents /\ PageMessage(a, data)
    \/ \E a \in AgentIds, data \in PageRestorePayloads :
         nEvents < MaxRevealEvents /\ PageRestoreState(a, data)
    \/ \E a \in AgentIds, data \in StatusPayloads :
         nEvents < MaxRevealEvents /\ PageConversationStatus(a, data)
    \/ \E a \in AgentIds : \E tm \in agentPage[a].timers : TimerFires(a, tm)

SpecReveal == Init /\ [][NextReveal]_vars

\* a timer of the page of agent a fires
TimerStep(a) == \E tm \in agentPage[a].timers : TimerFires(a, tm)

\* the browser runs every timer it was given: a pending timer fires after its delay
SpecRevealFair == SpecReveal /\ \A a \in AgentIds : WF_vars(TimerStep(a))

\* a step in which the page of agent a ran typeWriterEffect: the dialogue was
\* emptied and typed into from its first character on
StartedReveal(a) ==
    /\ lastEvent'.type \in {"page_message", "page_restore_state"}
    /\ lastEvent'.page = a
    /\ agentPage'[a].nextTimer # agentPage[a].nextTimer

\* C30: at most one character-reveal timer is pending per dialogue surface at
\* any time, and a step that starts a new reveal leaves none of the timers that
\* were pending before it: only the one it scheduled itself is pending.
OneRevealTimer ==
    /\ \A a \in AgentIds : Cardinality(agentPage[a].timers) <= 1
    /\ [][\A a \in AgentIds :
            /\ Cardinality(agentPage'[a].timers) <= 1
            /\ StartedReveal(a) =>
                  /\ agentPage'[a].timers \cap agentPage[a].timers = {}
                  /\ \A tm \in agentPage'[a].timers :
                        /\ tm.id = agentPage'[a].typingTimeout
                        /\ tm.index = 1]_vars

\* a reveal began on Alice's page while a timer of the one before was pending:
\* only the timer of the new one, which has typed its first character, is left
RevealSuperseded ==
    /\ lastEvent.type = "page_message"
    /\ lastEvent.page = 0
    /\ agentPage[0].nextTimer = 3
    /\ agentPage[0].dialogue.chars = <<"a">>
    /\ agentPage[0].timers = {[id |-> 2, text |-> <<"a", "&", "l", "t", ";">>, index |-> 1]}

-----------------------------------------------------------------------------
(* SpecChat: the events that reach the chat log *)

NextChat ==
    \/ \E data \in ChatPayloads : nEvents < MaxChatEvents /\ Message(data)
    \/ \E data \in AddMessagePayloads : nEvents < MaxChatEvents /\ AddMessage(data)
    \/ \E data \in StatusPayloads : nEvents < MaxChatEvents /\ ConversationStatus(data)
    \/ \E data \in ChatRestorePayloads : nEvents < MaxChatEvents /\ RestoreState(data)

SpecChat == Init /\ [][NextChat]_vars

\* the event made the router call addMessage with sender 'System'
SystemAppend(evt) ==
    \/ evt.type = "conversation_status"
    \/ /\ evt.type \in {"message", "add_message"}
       /\ TextOf(evt.data, "sender") = "System"

\* C7 (as amended): addMessage with sender 'System' returns before it builds an
\* element: the chat log, which is the rendered list itself, is unchanged (its
\* length grows by 0) and nothing is rendered.
SystemAppendLeavesChat ==
    [][SystemAppend(lastEvent') => conversationMessages' = conversationMessages]_vars

\* C7 (as claimed): an append with sender 'System' makes the stored log one longer.
SystemAppendIsStored ==
    [][SystemAppend(lastEvent') =>
          Len(conversationMessages') = Len(conversationMessages) + 1]_vars

SystemAppendAfterChat ==
    /\ SystemAppend(lastEvent)
    /\ lastEvent.type = "message"
    /\ Len(conversationMessages) = 3

\* the category a rendered chat entry shows, read off its class
CategoryOf(el) ==
    CASE el.className = "message message-error"  -> "error"
      [] el.className = "message message-left"   -> "agent-left"
      [] el.className = "message message-right"  -> "agent-right"
      [] el.className = "message message-system" -> "system"

\* a message or add_message event whose sender is not 'System': addMessage
\* appends an entry for it
ChatAppend(evt) ==
    /\ evt.type \in {"message", "add_message"}
    /\ TextOf(evt.data, "sender") # "System"

\* C24: the entry appended for a message has category error when its sender is
\* 'Error', whatever its senderId; otherwise agent-left for senderId 0 and
\* agent-right for senderId 1; otherwise system. The category of an entry in the
\* log does not change while later messages are appended.
CategoryFromSenderAndId ==
    [][/\ ChatAppend(lastEvent') =>
            LET new == conversationMessages'
                d   == lastEvent'.data
            IN /\ Len(new) = Len(conversationMessages) + 1
               /\ CategoryOf(new[Len(new)]) =
                     IF d.sender = "Error" THEN "error"
                     ELSE IF Has(d, "sender_id") /\ d.sender_id = 0 THEN "agent-left"
                     ELSE IF Has(d, "sender_id") /\ d.sender_id = 1 THEN "agent-right"
                     ELSE "system"
       /\ lastEvent'.type # "restore_state" =>
            \A i \in 1..Min(Len(conversationMessages), Len(conversationMessages')) :
               CategoryOf(conversationMessages'[i]) = CategoryOf(conversationMessages[i])
      ]_vars

\* an 'Error' message that carries senderId 0 is shown as an error, after two
\* other entries
ErrorFromAgentShown ==
    /\ lastEvent.type = "message"
    /\ lastEvent.data = MsgError
    /\ Len(conversationMessages) = 3
    /\ CategoryOf(conversationMessages[3]) = "error"
    /\ CategoryOf(conversationMessages[2]) = "agent-left"

\* C25 (as amended): no message whose sender is 'System' is ever rendered. A
\* message of category system from any other sender (the 'Debug' one of page
\* load, 'Narrator') is rendered like any other.
NoSystemSenderRendered ==
    \A i \in 1..Len(conversationMessages) : conversationMessages[i].sender # "System"

\* C25 (as claimed): the rendered chat surface holds no entry of category system.
NoSystemCategoryRendered ==
    \A i \in 1..Len(conversationMessages) :
       CategoryOf(conversationMessages[i]) # "system"

\* a 'System' message was dropped while the 'Narrator' one before it, of
\* category system, is on the surface
NarratorShownSystemDropped ==
    /\ lastEvent.type = "add_message"
    /\ lastEvent.data = MsgSystem
    /\ Len(conversationMessages) = 2
    /\ conversationMessages[2].sender = "Narrator"
    /\ CategoryOf(conversationMessages[2]) = "system"

\* what the restore handler's replay renders for one payload message
Replayed(msg) ==
    MessageElement(TextOf(msg, "sender"), TextOf(msg, "message"), SenderId(msg), NoData)

PayloadMessages(data) == IF Has(data, "messages") THEN data.messages ELSE <<>>

NotSystem(msg) == TextOf(msg, "sender") # "System"

\* C9 (as amended): after a restore_state event the chat log is exactly the
\* payload's messages whose sender is not 'System', in array order (empty when
\* the payload has no messages); nothing from before the restore is left.
RestoreReplaysNonSystem ==
    lastEvent.type = "restore_state" =>
        LET kept == SelectSeq(PayloadMessages(lastEvent.data), NotSystem)
        IN conversationMessages = [i \in 1..Len(kept) |-> Replayed(kept[i])]

\* C9 (as claimed): after a restore_state event the chat log is exactly the
\* payload's messages, in array order.
RestoreReplaysAll ==
    lastEvent.type = "restore_state" =>
        LET msgs == PayloadMessages(lastEvent.data)
        IN conversationMessages = [i \in 1..Len(msgs) |-> Replayed(msgs[i])]

RestoredOverOldChat ==
    /\ lastEvent.type = "restore_state"
    /\ nEvents = 3
    /\ Len(PayloadMessages(lastEvent.data)) = 2
    /\ conversationMessages = <<Replayed(MsgMorgan), Replayed(MsgAlice)>>

\* the entry shows text as its content, in the plain style and with no hover
\* detail
ShowsLiterally(el, text) ==
    /\ el.text = text
    /\ el.contentClass = ""
    /\ el.title = ""

\* C39: the entry appended for a message or add_message event, and every entry
\* replayed by a restore_state, shows the message text of the event itself:
\* no emotion tag and no hover detail, whatever the event carries.
RouterRendersLiteral ==
    [][/\ ChatAppend(lastEvent') =>
            ShowsLiterally(Newest(conversationMessages'), lastEvent'.data.message)
       /\ lastEvent'.type = "restore_state" =>
            LET kept == SelectSeq(PayloadMessages(lastEvent'.data), NotSystem)
            IN /\ Len(conversationMessages') = Len(kept)
               /\ \A i \in 1..Len(kept) :
                     ShowsLiterally(conversationMessages'[i], kept[i].message)
      ]_vars

\* a message that carries an emotion and an original speech was appended and
\* shows its own text
EmotionOfEventNotShown ==
    /\ lastEvent.type = "message"
    /\ Truthy(lastEvent.data, "emotion")
    /\ Truthy(lastEvent.data, "original_speech")
    /\ Len(conversationMessages) > 0
    /\ ShowsLiterally(Newest(conversationMessages), lastEvent.data.message)

-----------------------------------------------------------------------------
(* SpecAgent: the events that patch an agent panel *)

NextAgent ==
    \/ \E data \in AgentPatches : nEvents < MaxAgentEvents /\ UpdateAgent1(data)
    \/ \E data \in Agent2Patches : nEvents < MaxAgentEvents /\ UpdateAgent2(data)
    \/ \E data \in AgentUpdatePayloads : nEvents < MaxAgentEvents /\ AgentUpdate(data)
    \/ \E data \in StrangerInitializePayloads :
         nEvents < MaxAgentEvents /\ InitializeAgents(data)

SpecAgent == Init /\ [][NextAgent]_vars

PanelFields ==
    {"name", "personality", "tension", "goal", "tactic", "plan", "interior"}

\* the event was handled by one call of updateAgentInfo
IsPatch(evt) == evt.type \in {"update_agent1", "update_agent2", "agent_update"}

\* the agentId the handler passed to updateAgentInfo
PatchTarget(evt) ==
    IF evt.type = "update_agent1" THEN 0
    ELSE IF evt.type = "update_agent2" THEN 1
    ELSE evt.data.agent_id

\* the patch carries a value for panel field f, directly or under plan
Carries(data, f) ==
    CASE f = "goal"   -> Has(data, "goal") \/ (Has(data, "plan") /\ Has(data.plan, "goal"))
      [] f = "tactic" -> Has(data, "plan") /\ Has(data.plan, "active_tactic")
      [] f = "plan"   -> Has(data, "plan") /\ Has(data.plan, "tactics")
      [] OTHER        -> Has(data, f)

\* an agent_update that carries a non-empty name for agent 0 or 1
NamedAgentUpdate(evt) ==
    /\ evt.type = "agent_update"
    /\ evt.data.agent_id \in AgentIds
    /\ Truthy(evt.data, "name")

\* C34: after an agent_update that carries a name for agent 0 or 1, the name
\* stored in State.agents for that agent is the name of the event, and so is
\* the name shown in the agent's panel.
AgentUpdateStoresName ==
    [][NamedAgentUpdate(lastEvent') =>
          LET a == lastEvent'.data.agent_id
          IN /\ stateAgents'[a].name = lastEvent'.data.name
             /\ stateAgents'[a].name = agentPanel'[a].name]_vars

\* C3: updateAgentInfo leaves every panel field that the patch does not carry at
\* its prior value, so patches of distinct fields never clobber one another,
\* whatever their order.
PatchKeepsAbsentFields ==
    [][IsPatch(lastEvent') =>
          \A f \in PanelFields :
             ~Carries(lastEvent'.data, f) =>
                agentPanel'[panelOf(PatchTarget(lastEvent'))][f]
                   = agentPanel[panelOf(PatchTarget(lastEvent'))][f]]_vars

\* tension 5 applied first survives the later patch {goal: 'x'}
TensionThenGoal ==
    /\ lastEvent.type = "update_agent1"
    /\ lastEvent.data = PatchGoal
    /\ agentPanel[0].tension = "5"
    /\ agentPanel[0].goal = "x"

\* C10 (as amended): presence decides only for tension (0 overwrites); for name,
\* personality and goal a non-empty value overwrites and an empty string leaves
\* the field as it was (goal then takes a non-empty plan.goal, if any).
FalsyOverwritesOnlyTension ==
    [][IsPatch(lastEvent') =>
          LET data == lastEvent'.data
              new  == agentPanel'[panelOf(PatchTarget(lastEvent'))]
              old  == agentPanel[panelOf(PatchTarget(lastEvent'))]
          IN /\ Has(data, "tension") => new.tension = ToString(data.tension)
             /\ \A f \in {"name", "personality", "goal"} :
                  Has(data, f) =>
                    IF data[f] # "" THEN new[f] = data[f]
                    ELSE IF f = "goal" /\ PlanTruthy(data, "goal")
                         THEN new[f] = data.plan.goal
                    ELSE new[f] = old[f]]_vars

\* C10 (as claimed): a recognized field present in the patch overwrites the
\* panel field with its value, falsy or not.
PresentOverwrites ==
    [][IsPatch(lastEvent') =>
          LET data == lastEvent'.data
              new  == agentPanel'[panelOf(PatchTarget(lastEvent'))]
          IN /\ Has(data, "tension") => new.tension = ToString(data.tension)
             /\ \A f \in {"name", "personality", "goal"} :
                  Has(data, f) => new[f] = data[f]]_vars

\* after a patch of falsy values the tension shows 0 and the name is still Alice
FalsyPatchApplied ==
    /\ lastEvent.type = "update_agent1"
    /\ lastEvent.data = PatchFalsy
    /\ agentPanel[0].tension = "0"
    /\ agentPanel[0].name = "Alice"
    /\ agentPanel[0].goal = "x"

\* C11 (as amended): the goal shown after a patch is patch.goal when that is a
\* non-empty string, even beside a different plan.goal; otherwise plan.goal when
\* that is a non-empty string; otherwise the goal shown before. An empty
\* patch.goal does not become the goal.
GoalFromFirstNonEmpty ==
    [][IsPatch(lastEvent') =>
          LET data == lastEvent'.data
              new  == agentPanel'[panelOf(PatchTarget(lastEvent'))]
              old  == agentPanel[panelOf(PatchTarget(lastEvent'))]
          IN new.goal =
               IF Has(data, "goal") /\ data.goal # "" THEN data.goal
               ELSE IF Has(data, "plan") /\ Has(data.plan, "goal")
                       /\ data.plan.goal # "" THEN data.plan.goal
               ELSE old.goal]_vars

\* C11 (as claimed): patch.goal, when present, becomes the goal; otherwise
\* plan.goal, when present; otherwise the goal is unchanged.
GoalFromFirstPresent ==
    [][IsPatch(lastEvent') =>
          LET data == lastEvent'.data
              new  == agentPanel'[panelOf(PatchTarget(lastEvent'))]
              old  == agentPanel[panelOf(PatchTarget(lastEvent'))]
          IN new.goal =
               IF Has(data, "goal") THEN data.goal
               ELSE IF Has(data, "plan") /\ Has(data.plan, "goal") THEN data.plan.goal
               ELSE old.goal]_vars

\* goal g2 won over plan.goal pg, after plan.goal had been the goal
DirectGoalWonOverPlanGoal ==
    /\ lastEvent.type = "update_agent1"
    /\ lastEvent.data = PatchGoalAndPlan
    /\ agentPanel[0].goal = "g2"
    /\ agentPanel[0].tactic = "t1"

\* the joined rendering of a tactic list of at most two elements
Joined(tactics) ==
    CASE Len(tactics) = 0 -> ""
      [] Len(tactics) = 1 -> tactics[1]
      [] Len(tactics) = 2 -> tactics[1] \o ", " \o tactics[2]

\* C12 (as amended): the active tactic and the tactic list are taken only from
\* under plan: a non-empty plan.active_tactic becomes the active tactic and
\* plan.tactics is shown as its elements joined with ', '; a patch that carries
\* them as its own fields, not under plan, leaves both as they were.
TacticsOnlyFromPlan ==
    [][IsPatch(lastEvent') =>
          LET data == lastEvent'.data
              new  == agentPanel'[panelOf(PatchTarget(lastEvent'))]
              old  == agentPanel[panelOf(PatchTarget(lastEvent'))]
          IN /\ new.tactic =
                  IF Has(data, "plan") /\ Has(data.plan, "active_tactic")
                     /\ data.plan.active_tactic # ""
                  THEN data.plan.active_tactic ELSE old.tactic
             /\ new.plan =
                  IF Has(data, "plan") /\ Has(data.plan, "tactics")
                  THEN Joined(data.plan.tactics) ELSE old.plan]_vars

\* C12 (as claimed): the active tactic and the tactic list are taken from the
\* patch's own field when it carries one, else from under plan, and the list is
\* shown joined with ', '.
TacticsDirectElsePlan ==
    [][IsPatch(lastEvent') =>
          LET data == lastEvent'.data
              new  == agentPanel'[panelOf(PatchTarget(lastEvent'))]
              old  == agentPanel[panelOf(PatchTarget(lastEvent'))]
          IN /\ new.tactic =
                  IF Has(data, "active_tactic") THEN data.active_tactic
                  ELSE IF Has(data, "plan") /\ Has(data.plan, "active_tactic")
                  THEN data.plan.active_tactic ELSE old.tactic
             /\ new.plan =
                  IF Has(data, "tactics") THEN Joined(data.tactics)
                  ELSE IF Has(data, "plan") /\ Has(data.plan, "tactics")
                  THEN Joined(data.plan.tactics) ELSE old.plan]_vars

\* the tactics set from under plan are still shown after a patch carried
\* others as its own fields
DirectTacticsIgnored ==
    /\ lastEvent.type = "update_agent1"
    /\ lastEvent.data = PatchDirectTactics
    /\ agentPanel[0].tactic = "t1"
    /\ agentPanel[0].plan = "t1, t2"

-----------------------------------------------------------------------------
(* SpecPipeline: the events that build and advance the pipelines *)

NextPipeline ==
    \/ \E data \in InitializePayloads :
         nEvents < MaxPipelineEvents /\ InitializeAgents(data)
    \/ \E data \in PipelineUpdatePayloads :
         nEvents < MaxPipelineEvents /\ PipelineUpdate(data)
    \/ \E data \in PipelineRestorePayloads :
         nEvents < MaxPipelineEvents /\ RestoreState(data)

SpecPipeline == Init /\ [][NextPipeline]_vars

\* a pipeline_update for an agent that has pipeline state
StageEvent(evt) == evt.type = "pipeline_update" /\ evt.data.agent_id \in AgentIds

\* the stage a pipeline_update names, '' when it names none
StageOf(evt) == TextOf(evt.data, "stage")

\* stage is one of the names in components
IsStage(components, stage) == \E i \in 1..Len(components) : components[i] = stage

\* the summary text a pipeline_update carries, '' when it carries none
SummaryOf(evt) ==
    IF Has(evt.data, "data") THEN TextOf(evt.data.data, "summary") ELSE ""

\* C4: a stage update that names a member of the agent's stages sets currentStep
\* to that member's position, whatever the step was before.
StageUpdateSetsPosition ==
    [][StageEvent(lastEvent') =>
          LET a == lastEvent'.data.agent_id
              components == pipelineStates[a].components
          IN \A i \in 1..Len(components) :
                components[i] = StageOf(lastEvent') =>
                   /\ pipelineStates'[a].components = components
                   /\ pipelineStates'[a].currentStep = i - 1]_vars

\* the first stage announced after the last one: the step moved backwards
SteppedBackwards ==
    /\ StageEvent(lastEvent)
    /\ lastEvent.data.agent_id = 0
    /\ StageOf(lastEvent) = "trigger"
    /\ pipelineStates[0].components = Stages4
    /\ pipelineStates[0].currentStep = 0
    /\ pipelineDom[0].summaries[4].text # ""

\* the event named the last of the agent's stages
LastStageEvent(evt, components) ==
    /\ StageEvent(evt)
    /\ Len(components) > 0
    /\ StageOf(evt) = components[Len(components)]

\* C5 (as amended): after a stage update that names the last stage isActive is
\* false again (set, then negated by switchActiveFlag in the same call), and the
\* rendered completion indicator of that pipeline has been toggled.
LastStageTogglesIndicator ==
    [][LastStageEvent(lastEvent', pipelineStates[lastEvent'.data.agent_id].components) =>
          LET a == lastEvent'.data.agent_id
          IN /\ ~pipelineStates'[a].isActive
             /\ pipelineDom'[a].completed = ~pipelineDom[a].completed]_vars

\* C5 (as claimed): after a stage update that names the last stage, isActive is true.
LastStageSetsActiveFlag ==
    LastStageEvent(lastEvent, pipelineStates[lastEvent.data.agent_id].components) =>
        getActiveFlag(Cur, lastEvent.data.agent_id)

\* the end-to-end scenario: initialize, then stage 'action' with summary 'said hi'
EndToEndCompleted ==
    /\ nEvents = 2
    /\ lastEvent.data = [agent_id |-> 0, stage |-> "action",
                         data |-> [summary |-> "said hi"]]
    /\ pipelineStates[0].components = Stages4
    /\ pipelineStates[0].currentStep = 3
    /\ ~pipelineStates[0].isActive
    /\ pipelineDom[0].completed

\* C6 (as claimed): a stage update with a falsy or unknown stage name changes
\* nothing of the pipelines (step, summaries, flag, active marker) and does not throw.
UnknownStageIsNoOp ==
    [][(/\ StageEvent(lastEvent')
        /\ ~IsStage(pipelineStates[lastEvent'.data.agent_id].components,
                    StageOf(lastEvent'))) =>
          /\ pipelineStates' = pipelineStates
          /\ pipelineDom' = pipelineDom
          /\ ~threw']_vars

\* C8 (as amended): a non-empty summary given with a known stage is stored as
\* the text wrapped in double quotes; an empty one leaves the summary as it was.
SummaryStoredQuoted ==
    [][StageEvent(lastEvent') =>
          LET a == lastEvent'.data.agent_id
              components == pipelineStates[a].components
          IN \A i \in 1..Len(components) :
                (components[i] = StageOf(lastEvent') /\ Has(lastEvent'.data, "data")
                   /\ Has(lastEvent'.data.data, "summary")) =>
                   pipelineDom'[a].summaries[i].text =
                      IF SummaryOf(lastEvent') # ""
                      THEN "\"" \o SummaryOf(lastEvent') \o "\""
                      ELSE pipelineDom[a].summaries[i].text]_vars

\* C8 (as claimed): the summary stored for the stage equals exactly the text given.
SummaryStoredVerbatim ==
    [][StageEvent(lastEvent') =>
          LET a == lastEvent'.data.agent_id
              components == pipelineStates[a].components
          IN \A i \in 1..Len(components) :
                (components[i] = StageOf(lastEvent') /\ Has(lastEvent'.data, "data")
                   /\ Has(lastEvent'.data.data, "summary")) =>
                   pipelineDom'[a].summaries[i].text = SummaryOf(lastEvent')]_vars

\* the end-to-end scenario: step 3 and the quoted summary under 'action'
EndToEndSummary ==
    /\ nEvents = 2
    /\ lastEvent.data = [agent_id |-> 0, stage |-> "action",
                         data |-> [summary |-> "said hi"]]
    /\ pipelineStates[0].currentStep = 3
    /\ pipelineDom[0].summaries[4] =
          [id |-> "action", current |-> TRUE, text |-> "\"said hi\""]

\* the stages createPipelineFlow is given for agent a while initialize_agents
\* is handled, <<>> when it is not called for a
InitializedStages(evt, a) ==
    IF evt.type = "initialize_agents" /\ Has(evt.data, "agents")
    THEN LET agents == evt.data.agents
             given  == {i \in 1..Len(agents) :
                          /\ agents[i].agent_id = a
                          /\ Has(agents[i], "components")
                          /\ Len(agents[i].components) > 0}
         IN IF given = {} THEN <<>>
            ELSE agents[CHOOSE i \in given : \A j \in given : j <= i].components
    ELSE <<>>

\* handling evt recreated the pipeline of agent a
Recreated(evt, a) ==
    Len(InitializedStages(evt, a)) > 0 \/ Len(RestoredStages(evt, a)) > 0

\* the positions of the summaries of agent a that are marked 'current'
Marked(dom, a) ==
    {i \in 1..Len(dom[a].summaries) : dom[a].summaries[i].current}

\* C13: createPipelineFlow with a non-empty stage list, whatever the pipeline
\* was before, leaves the pipeline with the new stages, no stage marked active,
\* isActive false, the rendered completion indicator off and every summary empty.
CreateResetsPipeline ==
    \A a \in AgentIds :
       LET components == InitializedStages(lastEvent, a)
       IN (Len(components) > 0 /\ ~threw) =>
            /\ pipelineStates[a].components = components
            /\ pipelineStates[a].currentStep = 0
            /\ ~pipelineStates[a].isActive
            /\ Marked(pipelineDom, a) = {}
            /\ \A i \in 1..Len(pipelineDom[a].summaries) :
                  pipelineDom[a].summaries[i].text = ""
            /\ Len(pipelineDom[a].summaries) = Len(components)
            /\ ~pipelineDom[a].completed

\* C14 (as amended): currentStep is never negative and, for a pipeline that has
\* stages, is a valid index into them; a pipeline with no stages (the initial
\* one, also after a rejected createPipelineFlow) has currentStep 0, which
\* indexes nothing.
StepWithinStages ==
    \A a \in AgentIds :
       LET st == pipelineStates[a]
       IN IF Len(st.components) = 0 THEN st.currentStep = 0
          ELSE st.currentStep \in 0..(Len(st.components) - 1)

\* C14 (as claimed): currentStep is a valid index into the agent's components in
\* every reachable state, the initial one included.
StepIsValidIndex ==
    \A a \in AgentIds :
       pipelineStates[a].currentStep \in 0..(Len(pipelineStates[a].components) - 1)

\* a createPipelineFlow rejected for its empty list left agent 0's step at the
\* last stage, while agent 1 still has no stages
StepKeptAfterRejectedCreate ==
    /\ lastEvent.type = "initialize_agents"
    /\ lastEvent.data.agents[1].components = <<>>
    /\ pipelineStates[0].components = Stages4
    /\ pipelineStates[0].currentStep = 3
    /\ pipelineStates[1].components = <<>>

\* C15: at most one stage per agent is marked 'current', the marked stage is the
\* one at currentStep, and once a stage is marked one stays marked by every
\* event that does not recreate the pipeline.
OneStageStaysMarked ==
    [][\A a \in AgentIds :
          /\ Cardinality(Marked(pipelineDom', a)) <= 1
          /\ \A i \in Marked(pipelineDom', a) : i = pipelineStates'[a].currentStep + 1
          /\ (Marked(pipelineDom, a) # {} /\ ~Recreated(lastEvent', a))
                => Marked(pipelineDom', a) # {}]_vars

\* C16: a summary's text changes only when the pipeline is recreated or when a
\* pipeline_update names that same stage and carries a non-empty summary;
\* announcing any other stage, with or without a summary, leaves it as stored.
SummaryChangesOnlyForNamedStage ==
    [][\A a \in AgentIds :
          ~Recreated(lastEvent', a) =>
             LET old == pipelineDom[a].summaries
                 new == pipelineDom'[a].summaries
             IN /\ Len(new) = Len(old)
                /\ \A i \in 1..Len(old) :
                     new[i].text # old[i].text =>
                        /\ StageEvent(lastEvent')
                        /\ lastEvent'.data.agent_id = a
                        /\ StageOf(lastEvent') = old[i].id
                        /\ SummaryOf(lastEvent') # ""]_vars

\* the summary stored for 'plan' is still there after 'action' was announced
\* with a summary of its own
SummaryKeptUnderLaterStage ==
    /\ StageEvent(lastEvent)
    /\ lastEvent.data.agent_id = 0
    /\ StageOf(lastEvent) = "action"
    /\ pipelineStates[0].components = Stages4
    /\ pipelineDom[0].summaries[3].text = "\"ok\""
    /\ pipelineDom[0].summaries[4].text = "\"said hi\""

ComponentsOf(evt) ==
    IF Has(evt.data, "data") /\ Has(evt.data.data, "components")
    THEN evt.data.data.components ELSE <<>>

\* C27: a pipeline_update whose data carries a components list rebuilds the
\* agent's pipeline from it: the stages are the list and the summaries are
\* rebuilt empty, one per stage, before the event's stage, if any, is applied.
UpdateWithComponentsRebuilds ==
    [][(StageEvent(lastEvent') /\ Len(ComponentsOf(lastEvent')) > 0) =>
          LET a == lastEvent'.data.agent_id
              components == ComponentsOf(lastEvent')
          IN /\ pipelineStates'[a].components = components
             /\ Len(pipelineDom'[a].summaries) = Len(components)
             /\ \A i \in 1..Len(pipelineDom'[a].summaries) :
                   /\ pipelineDom'[a].summaries[i].id = components[i]
                   /\ pipelineDom'[a].summaries[i].text = ""
             /\ StageOf(lastEvent') = "" => Marked(pipelineDom', a) = {}]_vars

\* stage.endsWith('_start'), for the stage names of this model
EndsWithStart(stage) ==
    \E c \in {"trigger", "intent", "plan", "action"} : stage = c \o "_start"

\* C28: a pipeline_update whose stage ends with '_start' leaves currentStep,
\* the 'current' marker, the summaries, isActive and the completion indicator
\* of that agent's pipeline as they were.
StartStageChangesNothing ==
    [][(StageEvent(lastEvent') /\ EndsWithStart(StageOf(lastEvent'))) =>
          LET a == lastEvent'.data.agent_id
          IN /\ pipelineStates'[a] = pipelineStates[a]
             /\ pipelineDom'[a] = pipelineDom[a]]_vars

\* C36: between two events getActiveFlag is false for both agents.
ActiveFlagOffBetweenEvents ==
    \A a \in AgentIds : ~getActiveFlag(Cur, a)

\* a restore has just announced the last stage of agent 0's pipeline: the
\* indicator is on and the flag is off
RestoredAtLastStageFlagOff ==
    /\ lastEvent.type = "restore_state"
    /\ AnnouncesLastStage(Cur, lastEvent, 0)
    /\ pipelineStates[0].currentStep = Len(pipelineStates[0].components) - 1
    /\ pipelineDom[0].completed
    /\ ~getActiveFlag(Cur, 0)

\* the pipeline_update names a stage and an agent whose pipeline was never
\* created or that has no pipeline state at all
UnbuiltStageEvent(evt) ==
    /\ evt.type = "pipeline_update"
    /\ StageOf(evt) # ""
    /\ \/ evt.data.agent_id \notin AgentIds
       \/ Len(pipelineStates[evt.data.agent_id].components) = 0

\* C31: a stage update for an agent whose pipeline was never created, or whose
\* id is not 0 or 1, raises no exception and changes no pipeline state.
UnbuiltStageUpdateDropped ==
    [][UnbuiltStageEvent(lastEvent') =>
          /\ ~threw'
          /\ pipelineStates' = pipelineStates
          /\ pipelineDom' = pipelineDom]_vars

\* an agent_update, or an initialize_agents entry, for an id other than 0 and 1
StrangerEvent(evt) ==
    \/ evt.type = "agent_update" /\ evt.data.agent_id \notin AgentIds
    \/ /\ evt.type = "initialize_agents"
       /\ Has(evt.data, "agents")
       /\ \A i \in 1..Len(evt.data.agents) :
             evt.data.agents[i].agent_id \notin AgentIds

\* C32: an agent update or a pipeline creation addressed to an id other than 0
\* and 1 leaves the panels and pipelines of agents 0 and 1 as they were and
\* raises no exception.
StrangerSkipped ==
    [][StrangerEvent(lastEvent') =>
          /\ agentPanel' = agentPanel
          /\ pipelineStates' = pipelineStates
          /\ pipelineDom' = pipelineDom
          /\ ~threw']_vars

-----------------------------------------------------------------------------
(* SpecIsolation: events addressed to one of the two agents *)

\* initialize_agents with an entry for one agent only
SoloInitializePayloads ==
    { [agents |-> << [agent_id |-> a, name |-> "Solo", tension |-> 1,
                      components |-> Stages2] >>] : a \in AgentIds }

NextIsolation ==
    \/ \E data \in {d \in InitializePayloads : Len(d.agents) = 2}
                  \cup SoloInitializePayloads :
         nEvents < MaxIsolationEvents /\ InitializeAgents(data)
    \/ \E data \in {PatchIdentity, PatchPlan} :
         nEvents < MaxIsolationEvents /\ UpdateAgent1(data)
    \/ \E data \in {PatchIdentity, PatchGoal} :
         nEvents < MaxIsolationEvents /\ UpdateAgent2(data)
    \/ \E data \in {d \in AgentUpdatePayloads :
                      d.agent_id \in AgentIds /\ Has(d, "personality")} :
         nEvents < MaxIsolationEvents /\ AgentUpdate(data)
    \/ \E data \in {d \in PipelineUpdatePayloads :
                      /\ Has(d, "data")
                      /\ TextOf(d, "stage") \in {"plan", "action"}
                      /\ Truthy(d.data, "summary")} :
         nEvents < MaxIsolationEvents /\ PipelineUpdate(data)

SpecIsolation == Init /\ [][NextIsolation]_vars

\* the event is addressed to agent a and to no other agent
AddressedTo(evt, a) ==
    \/ evt.type = "update_agent1" /\ a = 0
    \/ evt.type = "update_agent2" /\ a = 1
    \/ evt.type \in {"agent_update", "pipeline_update"} /\ evt.data.agent_id = a
    \/ /\ evt.type = "initialize_agents"
       /\ Has(evt.data, "agents")
       /\ \A i \in 1..Len(evt.data.agents) : evt.data.agents[i].agent_id = a

\* C40: an event addressed to one of the agents 0 and 1 leaves the panel and
\* the pipeline of the other one as they were.
OtherAgentUntouched ==
    [][\A a \in AgentIds :
          AddressedTo(lastEvent', a) =>
             /\ agentPanel'[1 - a] = agentPanel[1 - a]
             /\ pipelineStates'[1 - a] = pipelineStates[1 - a]
             /\ pipelineDom'[1 - a] = pipelineDom[1 - a]]_vars

\* both agents were initialized with four stages, agent 0 was told its last
\* stage, and agent 1's panel and pipeline are as the initialization left them
OnlyAliceCompleted ==
    /\ lastEvent.type = "pipeline_update"
    /\ lastEvent.data.agent_id = 0
    /\ pipelineDom[0].completed
    /\ pipelineStates[0].currentStep = 3
    /\ agentPanel[0].name = "Alice"
    /\ agentPanel[1].name = "Morgan"
    /\ pipelineStates[1] = [components |-> Stages4, currentStep |-> 0,
                             isActive |-> FALSE]
    /\ pipelineDom[1] = [summaries |-> SummaryElements(Stages4), completed |-> FALSE]

-----------------------------------------------------------------------------
(* Spec: every handler of the page, on a few payloads each *)

Next ==
    \/ nEvents < MaxEvents /\ Connect
    \/ nEvents < MaxEvents /\ Disconnect
    \/ nEvents < MaxEvents /\ StartConversation
    \/ \E data \in RestorePayloads : nEvents < MaxEvents /\ RestoreState(data)
    \/ \E data \in InitializePayloads \cup {NoData} :
         nEvents < MaxEvents /\ InitializeAgents(data)
    \/ \E data \in ConfigPayloads : nEvents < MaxEvents /\ Config(data)
    \/ \E data \in {d \in LlmPayloads : Has(d, "step_title")} :
         nEvents < MaxEvents /\ LlmInteraction(data)
    \/ \E data \in {MsgAlice, MsgSystem} : nEvents < MaxEvents /\ Message(data)
    \/ \E data \in {MsgNarrator} : nEvents < MaxEvents /\ AddMessage(data)
    \/ \E data \in StatusPayloads : nEvents < MaxEvents /\ ConversationStatus(data)
    \/ \E data \in {PatchFalsy, PatchPlan, PrimitivePatch} :
         nEvents < MaxEvents /\ UpdateAgent1(data)
    \/ \E data \in {PatchGoal} : nEvents < MaxEvents /\ UpdateAgent2(data)
    \/ \E data \in {d \in PipelineUpdatePayloads :
                      /\ d.agent_id = 0
                      /\ Has(d, "data")
                      /\ TextOf(d, "stage") \in {"", "plan", "action", "zzz"}} :
         nEvents < MaxEvents /\ PipelineUpdate(data)
    \/ \E data \in {d \in AgentUpdatePayloads : d.agent_id # 0 /\ Has(d, "name")} :
         nEvents < MaxEvents /\ AgentUpdate(data)

Spec == Init /\ [][Next]_vars

\* a patch that is not an object, a pipeline_update without a stage, or an
\* initialize_agents without an agents list
Malformed(evt) ==
    \/ IsPatch(evt) /\ Has(evt.data, "primitive")
    \/ evt.type = "pipeline_update" /\ StageOf(evt) = ""
    \/ evt.type = "initialize_agents" /\ ~Has(evt.data, "agents")

\* C33: a malformed event raises no exception and changes neither the agent
\* panels, the pipelines, the ring, the chat log nor the stored agent names.
MalformedDropped ==
    [][Malformed(lastEvent') =>
          /\ ~threw'
          /\ agentPanel' = agentPanel
          /\ pipelineStates' = pipelineStates
          /\ pipelineDom' = pipelineDom
          /\ ring' = ring
          /\ conversationMessages' = conversationMessages
          /\ stateAgents' = stateAgents]_vars

\* conversationMessages is a prefix of the new chat log
IsPrefix(old, new) ==
    /\ Len(old) <= Len(new)
    /\ \A i \in 1..Len(old) : new[i] = old[i]

\* C23 (as amended): the chat log is append-only outside restoration and
\* startConversation: a restore_state event and a startConversation with no
\* conversation active (which empties the log) are the only operations that
\* remove messages; every other operation leaves the messages in place and in
\* order, at most appending one at the end.
ChatAppendOnlyButStart ==
    [][IF lastEvent'.type = "restore_state" THEN TRUE
       ELSE IF lastEvent'.type = "startConversation" /\ ~conversationActive
       THEN conversationMessages' = <<>>
       ELSE /\ IsPrefix(conversationMessages, conversationMessages')
            /\ Len(conversationMessages') <= Len(conversationMessages) + 1]_vars

\* C23 (as claimed): handling restore_state is the only operation that removes
\* messages; every other one leaves the messages in place and in order, at most
\* appending one at the end.
ChatAppendOnly ==
    [][lastEvent'.type # "restore_state" =>
          /\ IsPrefix(conversationMessages, conversationMessages')
          /\ Len(conversationMessages') <= Len(conversationMessages) + 1]_vars

\* a startConversation with no conversation active, as the second operation
\* after load: the log, which showed at least the message of load, is empty
ChatEmptiedByStart ==
    /\ lastEvent.type = "startConversation"
    /\ nEvents = 2
    /\ emitted = <<"start_conversation">>
    /\ conversationMessages = <<>>

\* the number of agents a config event describes
ConfiguredAgents(evt) ==
    IF Has(evt.data, "config") /\ Has(evt.data.config, "agents")
    THEN Len(evt.data.config.agents) ELSE 0

\* C29: a config event changes only the name and the personality shown for the
\* two agents: tension, goal, active tactic, tactic list and interior state of
\* both panels, both pipelines, the ring, the chat log, the stored agent names
\* and the conversation-active flag are as before; with fewer than 2 agents it
\* changes nothing at all.
ConfigWritesNameAndPersonality ==
    [][lastEvent'.type = "config" =>
          /\ \A a \in AgentIds :
                \A f \in {"tension", "goal", "tactic", "plan", "interior"} :
                   agentPanel'[a][f] = agentPanel[a][f]
          /\ pipelineStates' = pipelineStates
          /\ pipelineDom' = pipelineDom
          /\ ring' = ring
          /\ conversationMessages' = conversationMessages
          /\ stateAgents' = stateAgents
          /\ currentConversationId' = currentConversationId
          /\ conversationActive' = conversationActive
          /\ ConfiguredAgents(lastEvent') < 2 => agentPanel' = agentPanel]_vars

\* a config for two agents after a patch had set agent 0's goal and tactics:
\* the names are new, the goal and the tactic list are still shown
ConfigKeptGoal ==
    /\ lastEvent.type = "config"
    /\ ConfiguredAgents(lastEvent) = 2
    /\ agentPanel[0].name = "Alice"
    /\ agentPanel[0].personality = "bold"
    /\ agentPanel[1].personality = "--"
    /\ agentPanel[0].goal = "pg"
    /\ agentPanel[0].plan = "t1, t2"

\* C21: a disconnect changes no state: the chat log, the agent panels, the
\* pipelines, the ring slots, the stored agent names, the conversation id and
\* the conversation-active flag are the same after it as before it.
DisconnectChangesNothing ==
    [][lastEvent'.type = "disconnect" =>
          /\ conversationMessages' = conversationMessages
          /\ agentPanel' = agentPanel
          /\ pipelineStates' = pipelineStates
          /\ pipelineDom' = pipelineDom
          /\ ring' = ring
          /\ stateAgents' = stateAgents
          /\ currentConversationId' = currentConversationId
          /\ conversationActive' = conversationActive]_vars

\* a disconnect while a conversation is active and a message is in the chat
DisconnectedWhileActive ==
    /\ lastEvent.type = "disconnect"
    /\ conversationActive
    /\ Len(conversationMessages) = 2
    /\ conversationMessages[2].sender = "Alice"

\* what the observer sees: chat log, both panels, both pipelines, the ring
UIView(s) ==
    [conversationMessages |-> s.conversationMessages,
     agentPanel           |-> s.agentPanel,
     pipelineStates       |-> s.pipelineStates,
     pipelineDom          |-> s.pipelineDom,
     ring                 |-> s.ring]

\* C2 (as claimed): the UI after a restore_state depends on the payload alone.
\* The empty history is one of the histories, so this says that after any
\* history the restore leaves what it leaves on the freshly loaded page.
RestoreDependsOnlyOnPayload ==
    lastEvent.type = "restore_state" =>
        UIView(Cur) = UIView(on_restore_state(InitialPage, lastEvent.data))

\* the step handles the restore_state payload that was handled just before it
RepeatedRestore ==
    /\ lastEvent.type = "restore_state"
    /\ lastEvent'.type = "restore_state"
    /\ lastEvent'.data = lastEvent.data

\* C35: handling the same restore_state payload a second time in a row leaves
\* the UI, each pipeline's isActive and completion indicator included, as the
\* first handling left it.
RestoreTwiceAsOnce ==
    [][RepeatedRestore => UIView(Cur)' = UIView(Cur)]_vars

\* C37: while a reveal is under way on an agent page, the text its dialogue
\* element shows is a prefix of the escaped text of the reveal started last.
RevealShowsPrefix ==
    \A a \in AgentIds :
        agentPage[a].timers # {} =>
            IsPrefix(Shown(agentPage[a], a), agentPage[a].escapedText)

\* typeWriterEffect has just run on the page of agent a: the element shows the
\* first character and the timer for the second is pending
JustStarted(a) ==
    /\ ~agentPage[a].dialogue.placeholder
    /\ Len(agentPage[a].dialogue.chars) = 1
    /\ \E tm \in agentPage[a].timers : tm.index = 1

\* C38: under fair timer firing a reveal that was started ends: the dialogue
\* element comes to show the whole escaped text of the reveal started last,
\* the page comes to have no timer pending, and from a state with no timer
\* pending only the start of a reveal schedules one.
RevealCompletes ==
    /\ \A a \in AgentIds :
          JustStarted(a) ~> (Shown(agentPage[a], a) = agentPage[a].escapedText)
    /\ \A a \in AgentIds :
          (agentPage[a].timers # {}) ~> (agentPage[a].timers = {})
    /\ [][\A a \in AgentIds :
            (agentPage[a].timers = {} /\ ~StartedReveal(a)) =>
                agentPage'[a].timers = {}]_vars

====
